---- MODULE Spec2Model ----
(***************************************************************************)
(* Model of pkg/oc/cli/projects/projects.go: the "projects" command.       *)
(*                                                                         *)
(* A Go string is a sequence of pieces.  A piece is either one character   *)
(* (a one-character TLA+ string) or a whole literal of the source text     *)
(* (a longer TLA+ string standing for exactly that text).  Names, display  *)
(* names, markers, separators and newlines are always spelled character by *)
(* character, so that prefixes, suffixes and line breaks can be inspected. *)
(***************************************************************************)
EXTENDS Integers, Sequences, FiniteSets, TLC

VARIABLES pc, args, rawConfig, o, calls, accessResult, listResult,
          stdout, Out, exitErr

vars == <<pc, args, rawConfig, o, calls, accessResult, listResult,
          stdout, Out, exitErr>>

(***************************************************************************)
(* Bounds of the model.                                                    *)
(***************************************************************************)
MaxProjects == 3
MaxArgs == 1

(***************************************************************************)
(* Strings.                                                                *)
(***************************************************************************)
Nil == [kind |-> "nil", text |-> <<>>]

Byte(c) ==
    CASE c = "a" -> 97
      [] c = "b" -> 98
      [] c = "c" -> 99
      [] c = "h" -> 104
      [] c = "m" -> 109
      [] c = "o" -> 111
      [] c = "u" -> 117
      [] c = "x" -> 120
      [] c = "y" -> 121
      [] c = "/" -> 47
      [] c = " " -> 32
      [] c = "*" -> 42
      [] c = "-" -> 45
      [] OTHER -> 0

\* Go's < on strings: lexicographic order of the bytes.
RECURSIVE StringLess(_, _)
StringLess(s, t) ==
    IF Len(t) = 0 THEN FALSE
    ELSE IF Len(s) = 0 THEN TRUE
    ELSE IF Byte(Head(s)) < Byte(Head(t)) THEN TRUE
    ELSE IF Byte(Head(s)) > Byte(Head(t)) THEN FALSE
    ELSE StringLess(Tail(s), Tail(t))

\* fmt's %q: the string in double quotes, with quote and backslash escaped.
RECURSIVE Escaped(_)
Escaped(s) ==
    IF Len(s) = 0 THEN <<>>
    ELSE (IF Head(s) = "\"" \/ Head(s) = "\\" THEN <<"\\", Head(s)>>
          ELSE <<Head(s)>>) \o Escaped(Tail(s))

Quoted(s) == <<"\"">> \o Escaped(s) \o <<"\"">>

(***************************************************************************)
(* Projects as the server returns them.                                    *)
(***************************************************************************)
OpenShiftDisplayName == "openshift.io/display-name"

ProjectNames == {<<"a">>, <<"a", "b">>, <<"b">>, <<"b", "a">>}

NoAnnotations == [k \in {} |-> <<>>]

AnnotationChoices(name) ==
    { NoAnnotations,
      [k \in {OpenShiftDisplayName, "displayName"} |->
          IF k = OpenShiftDisplayName THEN <<"x">> ELSE <<"y">>],
      [k \in {"displayName"} |-> <<"y">>],
      [k \in {OpenShiftDisplayName} |-> name] }

ProjectUniverse ==
    UNION { { [Name |-> n, Annotations |-> a] : a \in AnnotationChoices(n) }
            : n \in ProjectNames }

ProjectLists ==
    UNION { { l \in [1..n -> ProjectUniverse] :
                \A i, j \in 1..n : i # j => l[i].Name # l[j].Name }
            : n \in 0..MaxProjects }

\* A Go map read: the zero value "" for a missing key.
Annotation(project, key) ==
    IF key \in DOMAIN project.Annotations THEN project.Annotations[key] ELSE <<>>

(***************************************************************************)
(* SortByProjectName and sort.Sort.                                        *)
(***************************************************************************)
Swap(p, i, j) == [p EXCEPT ![i] = p[j], ![j] = p[i]]

LessDescending(p, i, j) == StringLess(p[j].Name, p[i].Name)

Less(p, i, j) == StringLess(p[i].Name, p[j].Name)

\* sort.Sort on a short slice: insertion sort through Less and Swap.
RECURSIVE SinkDown(_, _)
SinkDown(p, j) ==
    IF j > 1 /\ Less(p, j, j - 1) THEN SinkDown(Swap(p, j, j - 1), j - 1) ELSE p

RECURSIVE SortFrom(_, _)
SortFrom(p, i) ==
    IF i > Len(p) THEN p ELSE SortFrom(SinkDown(p, i), i + 1)

Sort(p) == SortFrom(p, 2)

(***************************************************************************)
(* Errors.  nil is the error value Nil.                                    *)
(***************************************************************************)
Error(kind, text) == [kind |-> kind, text |-> text]

ValidationError == Error("Validation", <<"no arguments should be passed">>)

EnumerationError == Error("Enumeration", <<"cannot list projects">>)

AccessErrors ==
    { Error("Forbidden", <<"forbidden">>),
      Error("NotFound", <<"not found">>),
      Error("Other", <<"server error">>) }

\* The error with which the factory call number k of Complete fails.
CompleteSteps == <<"RawConfig", "ToRESTConfig", "ClientSet", "NewForConfig">>

FactoryError(k) == Error("Factory", <<CompleteSteps[k]>>)

\* kcmdutil.UsageErrorf(cmd, err.Error()): the message followed by the help hint.
UsageErrorf(err) == Error("Usage", err.text \o <<"\n", "See 'projects -h' for help and examples.">>)

\* kapierrors.IsForbidden: false for nil.
IsForbidden(err) == err.kind = "Forbidden"

\* accessResult before, or without, the call of ConfirmProjectAccess.
NotCalled == Error("not called", <<>>)

(***************************************************************************)
(* The session configuration (clientcmdapi.Config).                        *)
(***************************************************************************)
GetContextNickname(namespace, clusterNick, userNick) ==
    namespace \o <<"/">> \o clusterNick \o <<"/">> \o userNick

Namespaces == {<<>>, <<"a">>, <<"a", "b">>}

ContextFor(ns) == [Namespace |-> ns, Cluster |-> <<"c">>, AuthInfo |-> <<"u">>]

NoContexts == [k \in {} |-> ContextFor(<<>>)]

\* The zero value of clientcmdapi.Config.
ZeroConfig == [CurrentContext |-> <<>>, Contexts |-> NoContexts]

Configs ==
    { ZeroConfig, [CurrentContext |-> <<"m">>, Contexts |-> NoContexts] }
    \cup UNION { { [CurrentContext |-> name, Contexts |-> (name :> ContextFor(ns))]
                   : name \in { <<"m">>,
                                GetContextNickname(ns, <<"c">>, <<"u">>) } }
                 : ns \in Namespaces }

ServerHost == <<"h">>

ListOutcomes ==
    { [projects |-> l, err |-> Nil] : l \in ProjectLists }
    \cup { [projects |-> <<>>, err |-> EnumerationError] }

(***************************************************************************)
(* ProjectsOptions.Complete and ProjectsOptions.Validate.                  *)
(***************************************************************************)
\* failAt = 0: every factory call succeeds; failAt = k: call number k fails.
CompleteResult(opts, raw, failAt) ==
    LET reached(k) == failAt = 0 \/ failAt > k
    IN  [ o |-> [opts EXCEPT
                   !.Config = IF reached(1) THEN raw ELSE ZeroConfig,
                   !.ClientConfig = IF reached(2) THEN [Host |-> ServerHost]
                                    ELSE [Host |-> <<>>],
                   !.KubeClient = reached(3),
                   !.Client = reached(4)],
          calls |-> IF failAt = 0 THEN CompleteSteps
                    ELSE SubSeq(CompleteSteps, 1, failAt),
          err |-> IF failAt = 0 THEN Nil ELSE FactoryError(failAt) ]

ValidateResultNever(a) == Nil

ValidateResult(a) == IF Len(a) > 0 THEN ValidationError ELSE Nil

(***************************************************************************)
(* ProjectsOptions.RunProjects.                                            *)
(***************************************************************************)
\* config.Contexts[config.CurrentContext] != nil
HasCurrentContext(config) == config.CurrentContext \in DOMAIN config.Contexts

CurrentProject(config) ==
    IF HasCurrentContext(config)
    THEN config.Contexts[config.CurrentContext].Namespace
    ELSE <<>>

\* The calls RunProjects issues, in order; confirmErr is what the first returns.
IssuedCallsUnlessAccessFailed(currentProject, confirmErr) ==
    IF Len(currentProject) > 0
    THEN IF confirmErr = Nil THEN <<"ConfirmProjectAccess", "GetProjects">>
         ELSE <<"ConfirmProjectAccess">>
    ELSE <<"GetProjects">>

IssuedCalls(currentProject, confirmErr) ==
    (IF Len(currentProject) > 0 THEN <<"ConfirmProjectAccess">> ELSE <<>>)
    \o <<"GetProjects">>

CurrentProjectExists(currentProject, confirmErr) ==
    Len(currentProject) > 0 /\ confirmErr = Nil

\* The variable of line 137 is never assigned: line 142 declares, with :=,
\* another variable of the same name, whose scope is that if statement.
CurrentProjectErr(currentProject, confirmErr) == Nil

DefaultContextName(config) ==
    IF HasCurrentContext(config)
    THEN LET currentContext == config.Contexts[config.CurrentContext]
         IN  GetContextNickname(currentContext.Namespace, currentContext.Cluster,
                                currentContext.AuthInfo)
    ELSE <<>>

DisplayNameAndNameForProject(project) ==
    LET primary == Annotation(project, OpenShiftDisplayName)
        displayName == IF Len(primary) = 0 THEN Annotation(project, "displayName")
                       ELSE primary
    IN  IF Len(displayName) > 0 /\ displayName # project.Name
        THEN project.Name \o <<" ", "(">> \o displayName \o <<")">>
        ELSE project.Name

Header(CommandName) ==
    <<"You have access to the following projects and can switch between them with '">>
    \o CommandName \o <<"' project <projectname>':", "\n">>

\* One iteration of the loop of lines 174-196: the new asterisk and the text
\* added to msg.
IterationShowingDisplayNameInShort(project, count, asterisk, currentProject, currentProjectExists, DisplayShort) ==
    LET primary == Annotation(project, OpenShiftDisplayName)
        displayName == IF Len(primary) = 0 THEN Annotation(project, "displayName")
                       ELSE primary
        marker == IF currentProjectExists /\ ~DisplayShort
                  THEN IF currentProject = project.Name
                       THEN <<" ", " ", "*", " ">>
                       ELSE <<" ", " ", " ", " ">>
                  ELSE asterisk
    IN  [ asterisk |-> marker,
          text |-> IF Len(displayName) > 0 /\ displayName # project.Name
                   THEN <<"\n">> \o marker \o project.Name \o <<" ", "-", " ">>
                        \o displayName
                   ELSE (IF DisplayShort /\ count = 1 THEN <<>> ELSE <<"\n">>)
                        \o marker \o project.Name ]

IterationMarkingAlways(project, count, asterisk, currentProject, currentProjectExists, DisplayShort) ==
    LET primary == Annotation(project, OpenShiftDisplayName)
        displayName == IF Len(primary) = 0 THEN Annotation(project, "displayName")
                       ELSE primary
        marker == IF ~DisplayShort
                  THEN IF currentProject = project.Name
                       THEN <<" ", " ", "*", " ">>
                       ELSE <<" ", " ", " ", " ">>
                  ELSE asterisk
    IN  [ asterisk |-> marker,
          text |-> IF Len(displayName) > 0 /\ displayName # project.Name /\ ~DisplayShort
                   THEN <<"\n">> \o marker \o project.Name \o <<" ", "-", " ">>
                        \o displayName
                   ELSE (IF DisplayShort /\ count = 1 THEN <<>> ELSE <<"\n">>)
                        \o marker \o project.Name ]

Iteration(project, count, asterisk, currentProject, currentProjectExists, DisplayShort) ==
    LET primary == Annotation(project, OpenShiftDisplayName)
        displayName == IF Len(primary) = 0 THEN Annotation(project, "displayName")
                       ELSE primary
        marker == IF currentProjectExists /\ ~DisplayShort
                  THEN IF currentProject = project.Name
                       THEN <<" ", " ", "*", " ">>
                       ELSE <<" ", " ", " ", " ">>
                  ELSE asterisk
    IN  [ asterisk |-> marker,
          text |-> IF Len(displayName) > 0 /\ displayName # project.Name /\ ~DisplayShort
                   THEN <<"\n">> \o marker \o project.Name \o <<" ", "-", " ">>
                        \o displayName
                   ELSE (IF DisplayShort /\ count = 1 THEN <<>> ELSE <<"\n">>)
                        \o marker \o project.Name ]

\* The loop over the sorted projects, from index i on.
RECURSIVE Loop(_, _, _, _, _, _, _)
Loop(projects, i, asterisk, msg, currentProject, currentProjectExists, DisplayShort) ==
    IF i > Len(projects) THEN msg
    ELSE LET it == Iteration(projects[i], i, asterisk, currentProject,
                             currentProjectExists, DisplayShort)
         IN  Loop(projects, i + 1, it.asterisk, msg \o it.text, currentProject,
                  currentProjectExists, DisplayShort)

\* The switch of lines 155-197: the value of msg.
MainBlock(opts, projects, currentProject, currentProjectExists) ==
    IF Len(projects) = 0
    THEN IF ~opts.DisplayShort
         THEN <<"You are not a member of any projects. You can request a project to be created with the 'new-project' command.">>
         ELSE <<>>
    ELSE IF Len(projects) = 1
    THEN IF opts.DisplayShort
         THEN projects[1].Name
         ELSE <<"You have one project on this server: ">>
              \o Quoted(DisplayNameAndNameForProject(projects[1])) \o <<".">>
    ELSE Loop(Sort(projects), 1, <<>>,
              IF ~opts.DisplayShort THEN Header(opts.CommandName) ELSE <<>>,
              currentProject, currentProjectExists, opts.DisplayShort)

Advisory(currentProject) ==
    <<"You do not have rights to view project ">> \o Quoted(currentProject)
    \o <<". Please switch to an existing one.", "\n">>

ShortFooter(currentProject, host) ==
    <<"\n", "Using project ">> \o Quoted(currentProject) \o <<" on server ">>
    \o Quoted(host) \o <<".", "\n">>

LongFooter(currentProject, context, host) ==
    <<"\n", "Using project ">> \o Quoted(currentProject)
    \o <<" from context named ">> \o Quoted(context) \o <<" on server ">>
    \o Quoted(host) \o <<".", "\n">>

\* Lines 200-216: what follows the main block on the standard output, what is
\* written to o.Out, and the error returned.
TrailerInvertedFooter(opts, projects, currentProject, currentProjectExists, currentProjectErr, defaultContextName) ==
    IF Len(projects) > 0 /\ ~opts.DisplayShort
    THEN IF ~currentProjectExists
         THEN [ stdout |-> IF IsForbidden(currentProjectErr)
                           THEN Advisory(currentProject) ELSE <<>>,
                Out |-> <<>>,
                err |-> currentProjectErr ]
         ELSE [ stdout |-> <<>>,
                Out |-> IF opts.Config.CurrentContext # defaultContextName
                        THEN ShortFooter(currentProject, opts.ClientConfig.Host)
                        ELSE LongFooter(currentProject, opts.Config.CurrentContext,
                                        opts.ClientConfig.Host),
                err |-> Nil ]
    ELSE [ stdout |-> <<>>, Out |-> <<>>, err |-> Nil ]

TrailerInShortModeToo(opts, projects, currentProject, currentProjectExists, currentProjectErr, defaultContextName) ==
    IF Len(projects) > 0
    THEN IF ~currentProjectExists
         THEN [ stdout |-> IF IsForbidden(currentProjectErr)
                           THEN Advisory(currentProject) ELSE <<>>,
                Out |-> <<>>,
                err |-> currentProjectErr ]
         ELSE [ stdout |-> <<>>,
                Out |-> IF opts.Config.CurrentContext = defaultContextName
                        THEN ShortFooter(currentProject, opts.ClientConfig.Host)
                        ELSE LongFooter(currentProject, opts.Config.CurrentContext,
                                        opts.ClientConfig.Host),
                err |-> Nil ]
    ELSE [ stdout |-> <<>>, Out |-> <<>>, err |-> Nil ]

Trailer(opts, projects, currentProject, currentProjectExists, currentProjectErr, defaultContextName) ==
    IF Len(projects) > 0 /\ ~opts.DisplayShort
    THEN IF ~currentProjectExists
         THEN [ stdout |-> IF IsForbidden(currentProjectErr)
                           THEN Advisory(currentProject) ELSE <<>>,
                Out |-> <<>>,
                err |-> currentProjectErr ]
         ELSE [ stdout |-> <<>>,
                Out |-> IF opts.Config.CurrentContext = defaultContextName
                        THEN ShortFooter(currentProject, opts.ClientConfig.Host)
                        ELSE LongFooter(currentProject, opts.Config.CurrentContext,
                                        opts.ClientConfig.Host),
                err |-> Nil ]
    ELSE [ stdout |-> <<>>, Out |-> <<>>, err |-> Nil ]

\* The whole of RunProjects, given what ConfirmProjectAccess (confirmErr) and
\* GetProjects (projects, err) return: the text on the standard output, the
\* text on o.Out and the error returned.
RunProjectsResultListingOnError(opts, confirmErr, projects, err) ==
    LET currentProject == CurrentProject(opts.Config)
        currentProjectExists == CurrentProjectExists(currentProject, confirmErr)
        msg == MainBlock(opts, projects, currentProject, currentProjectExists)
        t == Trailer(opts, projects, currentProject, currentProjectExists,
                     CurrentProjectErr(currentProject, confirmErr),
                     DefaultContextName(opts.Config))
    IN  [ stdout |-> msg \o <<"\n">> \o t.stdout, Out |-> t.Out,
          err |-> IF err = Nil THEN t.err ELSE err ]

RunProjectsResult(opts, confirmErr, projects, err) ==
    LET currentProject == CurrentProject(opts.Config)
        currentProjectExists == CurrentProjectExists(currentProject, confirmErr)
        currentProjectErr == CurrentProjectErr(currentProject, confirmErr)
        defaultContextName == DefaultContextName(opts.Config)
    IN  IF err = Nil
        THEN LET msg == MainBlock(opts, projects, currentProject, currentProjectExists)
                 t == Trailer(opts, projects, currentProject, currentProjectExists,
                              currentProjectErr, defaultContextName)
             IN  [ stdout |-> msg \o <<"\n">> \o t.stdout, Out |-> t.Out, err |-> t.err ]
        ELSE [ stdout |-> <<>>, Out |-> <<>>, err |-> err ]

(***************************************************************************)
(* The command: the Run closure of NewCmdProjects.  CheckErr ends the      *)
(* process with the error it is given, unless that is nil.                 *)
(***************************************************************************)
Arguments == UNION { [1..n -> {<<"x">>}] : n \in 0..MaxArgs }

Init ==
    /\ pc = "Complete"
    /\ args \in Arguments
    /\ rawConfig \in Configs
    /\ o \in { [ Config |-> ZeroConfig, ClientConfig |-> [Host |-> <<>>],
                 Client |-> FALSE, KubeClient |-> FALSE,
                 CommandName |-> <<"o", "c">>, DisplayShort |-> short ]
               : short \in BOOLEAN }
    /\ calls = <<>>
    /\ accessResult = NotCalled
    /\ listResult = [projects |-> <<>>, err |-> Nil]
    /\ stdout = <<>>
    /\ Out = <<>>
    /\ exitErr = Nil

Complete ==
    /\ pc = "Complete"
    /\ \E failAt \in 0..Len(CompleteSteps) :
          LET r == CompleteResult(o, rawConfig, failAt)
          IN  /\ o' = r.o
              /\ calls' = calls \o r.calls
              /\ pc' = IF r.err = Nil THEN "Validate" ELSE "exit"
              /\ exitErr' = IF r.err = Nil THEN exitErr ELSE UsageErrorf(r.err)
    /\ UNCHANGED <<args, rawConfig, accessResult, listResult, stdout, Out>>

Validate ==
    /\ pc = "Validate"
    /\ LET err == ValidateResult(args)
       IN  /\ pc' = IF err = Nil THEN "RunProjects" ELSE "exit"
           /\ exitErr' = err
    /\ UNCHANGED <<args, rawConfig, o, calls, accessResult, listResult, stdout, Out>>

RunProjects ==
    /\ pc = "RunProjects"
    /\ \E confirmErr \in (IF Len(CurrentProject(o.Config)) > 0
                          THEN {Nil} \cup AccessErrors ELSE {NotCalled}),
          list \in ListOutcomes :
          LET r == RunProjectsResult(o, confirmErr, list.projects, list.err)
          IN  /\ accessResult' = confirmErr
              /\ listResult' = list
              /\ calls' = calls \o IssuedCalls(CurrentProject(o.Config), confirmErr)
              /\ stdout' = stdout \o r.stdout
              /\ Out' = Out \o r.Out
              /\ exitErr' = r.err
    /\ pc' = "done"
    /\ UNCHANGED <<args, rawConfig, o>>

Next == Complete \/ Validate \/ RunProjects

Spec == Init /\ [][Next]_vars

(***************************************************************************)
(* Reading the output back.                                                *)
(***************************************************************************)
RECURSIVE LinesFrom(_, _, _)
LinesFrom(s, i, cur) ==
    IF i > Len(s) THEN <<cur>>
    ELSE IF s[i] = "\n" THEN <<cur>> \o LinesFrom(s, i + 1, <<>>)
    ELSE LinesFrom(s, i + 1, Append(cur, s[i]))

\* The text split at its newlines.
Lines(s) == LinesFrom(s, 1, <<>>)

IsPrefix(p, s) == Len(p) <= Len(s) /\ SubSeq(s, 1, Len(p)) = p

HasPiece(s, piece) == \E i \in 1..Len(s) : s[i] = piece

RECURSIVE StripMarker(_)
StripMarker(s) ==
    IF Len(s) > 0 /\ Head(s) \in {" ", "*"} THEN StripMarker(Tail(s)) ELSE s

RECURSIVE UpToSpace(_)
UpToSpace(s) ==
    IF Len(s) = 0 \/ Head(s) = " " THEN <<>> ELSE <<Head(s)>> \o UpToSpace(Tail(s))

\* The project name a per-project line shows.
NameOfLine(line) == UpToSpace(StripMarker(line))

Count(s, e) == Cardinality({i \in 1..Len(s) : s[i] = e})

Star == <<" ", " ", "*", " ">>
FourSpaces == <<" ", " ", " ", " ">>

Verbose == ~o.DisplayShort
N == Len(listResult.projects)
ListedNames == {listResult.projects[i].Name : i \in 1..N}
EnumerationOk == listResult.err = Nil
Selected == Len(CurrentProject(rawConfig)) > 0
Done == pc = "done"

\* The per-project lines of the output when there are two projects or more:
\* after the header line and the line break that follows it in verbose mode,
\* from the first line on in short mode.
ProjectLines ==
    LET ls == Lines(stdout)
        first == IF Verbose THEN 3 ELSE 1
    IN  IF Len(ls) >= first + N - 1 THEN SubSeq(ls, first, first + N - 1) ELSE <<>>

\* line is marker, name, and then nothing or " - " and a display name.
ShowsProject(line, marker, name) ==
    LET k == Len(marker) + Len(name)
    IN  /\ IsPrefix(marker \o name, line)
        /\ \/ Len(line) = k
           \/ /\ Len(line) > k + 3
              /\ SubSeq(line, k + 1, k + 3) = <<" ", "-", " ">>

\* Every project is shown by exactly one line, with the marker expected for it.
LinesCarry(marker(_)) ==
    /\ Len(ProjectLines) = N
    /\ \A i \in 1..N :
          LET p == listResult.projects[i]
          IN  Cardinality({k \in 1..N : ShowsProject(ProjectLines[k], marker(p), p.Name)}) = 1

(***************************************************************************)
(* C1: in verbose mode, with a current project selected, the access check  *)
(* failed (Forbidden, NotFound or other) and one project or more listed,   *)
(* RunProjects shows the listing and returns that access error: the error  *)
(* returned is not nil.                                                    *)
(***************************************************************************)
C1_AccessErrorReturned ==
    (Done /\ Verbose /\ Selected /\ accessResult \in AccessErrors
          /\ EnumerationOk /\ N >= 1)
    => (exitErr = accessResult /\ exitErr # Nil /\ Len(stdout) > 0)

(***************************************************************************)
(* C2: in verbose mode, with one project or more listed and the current    *)
(* project not confirmed accessible, the advisory naming the current       *)
(* project is on the output if and only if the access check failed with    *)
(* Forbidden.                                                              *)
(***************************************************************************)
C2_AdvisoryIffForbidden ==
    (Done /\ Verbose /\ EnumerationOk /\ N >= 1 /\ accessResult # Nil)
    => (HasPiece(stdout, "You do not have rights to view project ")
        <=> IsForbidden(accessResult))

(***************************************************************************)
(* C3, as claimed: in verbose mode with two projects or more every         *)
(* per-project line starts with "  * " when the project is the current one *)
(* and the current one was confirmed accessible, and with four spaces in   *)
(* every other case.                                                       *)
(***************************************************************************)
ClaimedMarker(p) ==
    IF accessResult = Nil /\ p.Name = CurrentProject(rawConfig) THEN Star ELSE FourSpaces

C3_MarkerAlwaysFourWide ==
    (Done /\ Verbose /\ EnumerationOk /\ N >= 2) => LinesCarry(ClaimedMarker)

(***************************************************************************)
(* C3, amended: in verbose mode with two projects or more, when the        *)
(* current project was confirmed accessible every per-project line starts  *)
(* with "  * " if the project is the current one and with four spaces      *)
(* otherwise; when no project is selected or the access check failed, the  *)
(* lines carry no marker at all.  At most one line carries "  * ".         *)
(***************************************************************************)
ActualMarker(p) ==
    IF accessResult = Nil
    THEN IF p.Name = CurrentProject(rawConfig) THEN Star ELSE FourSpaces
    ELSE <<>>

C3_MarkerOnlyWhenAccessible ==
    (Done /\ Verbose /\ EnumerationOk /\ N >= 2)
    => /\ LinesCarry(ActualMarker)
       /\ Cardinality({k \in 1..N : IsPrefix(Star, ProjectLines[k])}) <= 1

C3_Witness ==
    /\ Done /\ Verbose /\ EnumerationOk /\ N >= 2 /\ accessResult = Nil
    /\ CurrentProject(rawConfig) \in ListedNames
    /\ \E k \in 1..Len(ProjectLines) : IsPrefix(Star, ProjectLines[k])

(***************************************************************************)
(* C4: with two projects or more, in either mode, the per-project lines    *)
(* are in strictly ascending byte order of the name and show every project *)
(* exactly once, whatever the order the enumeration returned.              *)
(***************************************************************************)
C4_LinesAscending ==
    (Done /\ EnumerationOk /\ N >= 2)
    => /\ Len(ProjectLines) = N
       /\ \A k \in 1..(N - 1) :
             StringLess(NameOfLine(ProjectLines[k]), NameOfLine(ProjectLines[k + 1]))
       /\ {NameOfLine(ProjectLines[k]) : k \in 1..N} = ListedNames

C4_Witness ==
    /\ Done /\ EnumerationOk /\ N >= 3
    /\ StringLess(listResult.projects[2].Name, listResult.projects[1].Name)
    /\ StringLess(listResult.projects[3].Name, listResult.projects[2].Name)
    /\ Len(ProjectLines) = N

(***************************************************************************)
(* C5: in short mode the main block is the bare names, one per line: no    *)
(* leading blank line, no header, no marker, no display name, and nothing  *)
(* at all when there is no project.                                        *)
(***************************************************************************)
C5_ShortIsBareNames ==
    (Done /\ ~Verbose /\ EnumerationOk)
    => /\ Len(stdout) > 0
       /\ stdout[Len(stdout)] = "\n"
       /\ LET main == SubSeq(stdout, 1, Len(stdout) - 1)
              ls == Lines(main)
          IN  IF N = 0 THEN main = <<>>
              ELSE /\ Len(ls) = N
                   /\ {ls[k] : k \in 1..N} = ListedNames
       /\ Out = <<>>

C5_Witness ==
    /\ Done /\ ~Verbose /\ EnumerationOk /\ N >= 2 /\ accessResult = Nil
    /\ CurrentProject(rawConfig) \in ListedNames
    /\ \E i \in 1..N : DisplayNameAndNameForProject(listResult.projects[i])
                         # listResult.projects[i].Name

(***************************************************************************)
(* C6: in verbose mode, with one project or more and the current project   *)
(* confirmed accessible, exactly one footer is written and nil returned:   *)
(* the short form when the name of the current context is the nickname of  *)
(* its namespace, cluster and user, and the long form otherwise.           *)
(***************************************************************************)
C6_FooterForm ==
    (Done /\ Verbose /\ EnumerationOk /\ N >= 1 /\ accessResult = Nil)
    => LET ctx == rawConfig.Contexts[rawConfig.CurrentContext]
           generated == rawConfig.CurrentContext
                          = GetContextNickname(ctx.Namespace, ctx.Cluster, ctx.AuthInfo)
       IN  /\ exitErr = Nil
           /\ Out = IF generated
                    THEN ShortFooter(ctx.Namespace, ServerHost)
                    ELSE LongFooter(ctx.Namespace, rawConfig.CurrentContext, ServerHost)
           /\ ~HasPiece(stdout, "Using project ")

C6_Witness ==
    /\ Done /\ Verbose /\ EnumerationOk /\ N >= 1 /\ accessResult = Nil
    /\ rawConfig.CurrentContext = DefaultContextName(rawConfig)
    /\ Count(Out, "Using project ") = 1

(***************************************************************************)
(* C7: when the enumeration fails, RunProjects returns its error as it is  *)
(* and writes nothing, in either mode and whatever the access check gave.  *)
(***************************************************************************)
C7_EnumerationErrorVerbatim ==
    (Done /\ ~EnumerationOk)
    => (exitErr = listResult.err /\ stdout = <<>> /\ Out = <<>>)

C7_Witness ==
    Done /\ ~EnumerationOk /\ accessResult \in AccessErrors /\ exitErr = EnumerationError

(***************************************************************************)
(* C8: when the enumeration succeeds and either short mode is on or no     *)
(* project is listed, no footer and no advisory is written and nil is      *)
(* returned, whatever the access check gave.                               *)
(***************************************************************************)
C8_NoTrailer ==
    (Done /\ EnumerationOk /\ (~Verbose \/ N = 0))
    => /\ Out = <<>>
       /\ ~HasPiece(stdout, "Using project ")
       /\ ~HasPiece(stdout, "You do not have rights to view project ")
       /\ exitErr = Nil

C8_Witness ==
    /\ Done /\ EnumerationOk /\ ~Verbose /\ N >= 1
    /\ accessResult = Nil /\ exitErr = Nil

(***************************************************************************)
(* C9, as claimed: when a positional argument is supplied the invocation   *)
(* ends with the validation error, and no configuration load, client       *)
(* construction, access check or enumeration comes before it.              *)
(***************************************************************************)
C9_ValidationBeforeAnyIO ==
    (Len(args) > 0 /\ pc \in {"exit", "done"})
    => (exitErr = ValidationError /\ calls = <<>>)

(***************************************************************************)
(* C9, amended: when a positional argument is supplied, RunProjects never  *)
(* runs: no access check and no enumeration is issued and nothing is       *)
(* written.  The configuration load and the client construction of         *)
(* Complete come first; the invocation ends with the validation error when *)
(* Complete succeeded, and with the usage error of Complete's failure      *)
(* otherwise.                                                              *)
(***************************************************************************)
C9_ValidationBeforeNetwork ==
    Len(args) > 0
    => /\ pc \notin {"RunProjects", "done"}
       /\ Count(calls, "ConfirmProjectAccess") = 0
       /\ Count(calls, "GetProjects") = 0
       /\ stdout = <<>> /\ Out = <<>>
       /\ pc = "exit"
          => \/ exitErr = ValidationError /\ calls = CompleteSteps
             \/ /\ exitErr.kind = "Usage"
                /\ Len(calls) \in 1..Len(CompleteSteps)
                /\ calls = SubSeq(CompleteSteps, 1, Len(calls))

C9_Witness ==
    Len(args) > 0 /\ pc = "exit" /\ exitErr = ValidationError /\ calls = CompleteSteps

(***************************************************************************)
(* C10: a run of RunProjects issues the access check once when the current *)
(* context exists with a namespace and never otherwise, and then issues    *)
(* the enumeration once, as its last call, also when the access check      *)
(* failed.                                                                 *)
(***************************************************************************)
C10_CallsOnceInOrder ==
    /\ pc # "done" => /\ Count(calls, "ConfirmProjectAccess") = 0
                      /\ Count(calls, "GetProjects") = 0
    /\ Done => /\ Count(calls, "ConfirmProjectAccess")
                    = IF /\ rawConfig.CurrentContext \in DOMAIN rawConfig.Contexts
                         /\ rawConfig.Contexts[rawConfig.CurrentContext].Namespace # <<>>
                      THEN 1 ELSE 0
               /\ Count(calls, "GetProjects") = 1
               /\ calls[Len(calls)] = "GetProjects"
               /\ (accessResult = NotCalled) <=> (Count(calls, "ConfirmProjectAccess") = 0)

C10_Witness ==
    /\ Done /\ accessResult \in AccessErrors
    /\ Len(calls) = Len(CompleteSteps) + 2
    /\ calls[Len(calls) - 1] = "ConfirmProjectAccess"
    /\ calls[Len(calls)] = "GetProjects"

====
